---- MODULE Spec2Model ----
(***************************************************************************)
(* flx-compass-server: the advancedResults middleware                      *)
(* (src/middleware/advancedResults.js) and the attraction controllers      *)
(* (src/controllers/attractions.js) as a state machine.                    *)
(*                                                                         *)
(* JavaScript runs every handler to its next await without interruption,   *)
(* so one action is one such segment: the database operation the handler   *)
(* was waiting for, followed by the code up to the next await.             *)
(*                                                                         *)
(* Text is modelled as a sequence of one-character strings, so that        *)
(* JSON.stringify, the operator regex, JSON.parse and parseInt are         *)
(* computed character by character.                                        *)
(***************************************************************************)
EXTENDS Integers, Sequences, FiniteSets, TLC

\* ------------------------------------------------------------------ text

DQ == "\""
BSL == "\\"
LF == "\n"

Digits == {"0", "1", "2", "3", "4", "5", "6", "7", "8", "9"}

Letters ==
  {"a", "b", "c", "d", "e", "f", "g", "h", "i", "j", "k", "l", "m",
   "n", "o", "p", "q", "r", "s", "t", "u", "v", "w", "x", "y", "z"}

UpperLetters ==
  {"A", "B", "C", "D", "E", "F", "G", "H", "I", "J", "K", "L", "M",
   "N", "O", "P", "Q", "R", "S", "T", "U", "V", "W", "X", "Y", "Z"}

\* \w of a JavaScript regular expression.
IsWordChar(c) == c \in Letters \cup UpperLetters \cup Digits \cup {"_"}

RECURSIVE Flatten(_)
Flatten(ss) == IF ss = <<>> THEN <<>> ELSE Head(ss) \o Flatten(Tail(ss))

\* The values of a parsed query string (qs): a string, a nested object, or
\* undefined for a key that is absent.  An object is a sequence of
\* [k, v] pairs in insertion order.
Str(s) == [t |-> "str", s |-> s, o |-> <<>>]
Obj(ps) == [t |-> "obj", s |-> <<>>, o |-> ps]
Undefined == [t |-> "undef", s |-> <<>>, o |-> <<>>]
Pair(k, v) == [k |-> k, v |-> v]

HasKey(ps, k) == \E i \in 1..Len(ps) : ps[i].k = k

\* obj[k]
Get(ps, k) ==
  IF HasKey(ps, k)
  THEN ps[CHOOSE i \in 1..Len(ps) : ps[i].k = k].v
  ELSE Undefined

\* delete obj[k]
RECURSIVE Delete(_, _)
Delete(ps, k) ==
  IF ps = <<>> THEN <<>>
  ELSE IF Head(ps).k = k THEN Delete(Tail(ps), k)
  ELSE <<Head(ps)>> \o Delete(Tail(ps), k)

\* JavaScript truthiness of a query value: undefined and "" are falsy.
Truthy(v) == \/ v.t = "obj"
             \/ v.t = "str" /\ v.s # <<>>

\* ------------------------------------------------------- JSON.stringify

EscapeChar(c) ==
  IF c = DQ THEN <<BSL, DQ>>
  ELSE IF c = BSL THEN <<BSL, BSL>>
  ELSE IF c = LF THEN <<BSL, "n">>
  ELSE <<c>>

Quote(s) == <<DQ>> \o Flatten([i \in 1..Len(s) |-> EscapeChar(s[i])]) \o <<DQ>>

RECURSIVE StringifyValue(_)
RECURSIVE StringifyPairs(_)
StringifyPairs(ps) ==
  IF ps = <<>> THEN <<>>
  ELSE Quote(Head(ps).k) \o <<":">> \o StringifyValue(Head(ps).v)
       \o (IF Tail(ps) = <<>> THEN <<>> ELSE <<",">> \o StringifyPairs(Tail(ps)))

StringifyValue(v) ==
  IF v.t = "str" THEN Quote(v.s)
  ELSE <<"{">> \o StringifyPairs(v.o) \o <<"}">>

\* JSON.stringify(reqQuery)
Stringify(ps) == StringifyValue(Obj(ps))

\* ------------------------------------------- queryStr.replace(/\b(...)\b/g)

\* The alternatives of the regular expression, in the order it tries them.
OpWords == << <<"g", "t">>, <<"g", "t", "e">>, <<"l", "t">>, <<"l", "t", "e">>, <<"i", "n">> >>

IsWordAt(t, j) == j \in 1..Len(t) /\ IsWordChar(t[j])

\* \b before position i of t: exactly one of t[i-1], t[i] is a word character.
Boundary(t, i) == IsWordAt(t, i - 1) # IsWordAt(t, i)

MatchesAt(t, i, w) ==
  /\ i + Len(w) - 1 <= Len(t)
  /\ SubSeq(t, i, i + Len(w) - 1) = w
  /\ Boundary(t, i)
  /\ Boundary(t, i + Len(w))

\* Length of the match of \b(gt|gte|lt|lte|in)\b that starts at i, 0 if none.
MatchLen(t, i) ==
  IF \E n \in 1..Len(OpWords) : MatchesAt(t, i, OpWords[n])
  THEN Len(OpWords[CHOOSE n \in 1..Len(OpWords) :
             /\ MatchesAt(t, i, OpWords[n])
             /\ \A m \in 1..(n - 1) : ~MatchesAt(t, i, OpWords[m])])
  ELSE 0

RECURSIVE ReplaceFrom(_, _)
ReplaceFrom(t, i) ==
  IF i > Len(t) THEN <<>>
  ELSE LET m == MatchLen(t, i) IN
    IF m > 0
    THEN <<"$">> \o SubSeq(t, i, i + m - 1) \o ReplaceFrom(t, i + m)
    ELSE <<t[i]>> \o ReplaceFrom(t, i + 1)

\* ReplaceOperators without the g flag: only the first match is replaced.
ReplaceFirstOperator(t) ==
  IF \E i \in 1..Len(t) : MatchLen(t, i) > 0
  THEN LET i == CHOOSE j \in 1..Len(t) :
                  MatchLen(t, j) > 0 /\ \A k \in 1..(j - 1) : MatchLen(t, k) = 0
       IN SubSeq(t, 1, i - 1) \o <<"$">> \o SubSeq(t, i, Len(t))
  ELSE t

\* queryStr.replace(/\b(gt|gte|lt|lte|in)\b/g, match => `$${match}`)
ReplaceOperators(t) == ReplaceFrom(t, 1)

\* ----------------------------------------------------------- JSON.parse

ParseFail == [ok |-> FALSE, val |-> Undefined, next |-> 0]

\* obj[k] = v while parsing: a repeated key keeps its place, the last value wins.
Put(ps, k, v) ==
  IF HasKey(ps, k)
  THEN [i \in 1..Len(ps) |-> IF ps[i].k = k THEN Pair(k, v) ELSE ps[i]]
  ELSE Append(ps, Pair(k, v))

\* The characters of a string literal whose opening quote is before i.
RECURSIVE ParseChars(_, _, _)
ParseChars(t, i, acc) ==
  IF i > Len(t) THEN ParseFail
  ELSE IF t[i] = DQ THEN [ok |-> TRUE, val |-> Str(acc), next |-> i + 1]
  ELSE IF t[i] = LF THEN ParseFail
  ELSE IF t[i] = BSL
  THEN IF i + 1 > Len(t) THEN ParseFail
       ELSE IF t[i + 1] = DQ THEN ParseChars(t, i + 2, Append(acc, DQ))
       ELSE IF t[i + 1] = BSL THEN ParseChars(t, i + 2, Append(acc, BSL))
       ELSE IF t[i + 1] = "n" THEN ParseChars(t, i + 2, Append(acc, LF))
       ELSE ParseFail
  ELSE ParseChars(t, i + 1, Append(acc, t[i]))

RECURSIVE ParseValue(_, _)
RECURSIVE ParseMembers(_, _, _)
\* The members of an object whose "{" (or last ",") is before i.
ParseMembers(t, i, acc) ==
  IF i > Len(t) \/ t[i] # DQ THEN ParseFail
  ELSE LET key == ParseChars(t, i + 1, <<>>) IN
    IF ~key.ok \/ key.next > Len(t) \/ t[key.next] # ":" THEN ParseFail
    ELSE LET val == ParseValue(t, key.next + 1) IN
      IF ~val.ok \/ val.next > Len(t) THEN ParseFail
      ELSE IF t[val.next] = ","
      THEN ParseMembers(t, val.next + 1, Put(acc, key.val.s, val.val))
      ELSE IF t[val.next] = "}"
      THEN [ok |-> TRUE, val |-> Obj(Put(acc, key.val.s, val.val)),
            next |-> val.next + 1]
      ELSE ParseFail

ParseValue(t, i) ==
  IF i > Len(t) THEN ParseFail
  ELSE IF t[i] = DQ THEN ParseChars(t, i + 1, <<>>)
  ELSE IF t[i] = "{"
  THEN IF i + 1 <= Len(t) /\ t[i + 1] = "}"
       THEN [ok |-> TRUE, val |-> Obj(<<>>), next |-> i + 2]
       ELSE ParseMembers(t, i + 1, <<>>)
  ELSE ParseFail

\* JSON.parse(queryStr): ok = FALSE stands for the SyntaxError it throws.
JSONParse(t) ==
  LET r == ParseValue(t, 1) IN
  IF r.ok /\ r.next = Len(t) + 1 THEN [ok |-> TRUE, val |-> r.val]
  ELSE [ok |-> FALSE, val |-> Undefined]

\* ------------------------------------------------------------- parseInt

NaN == [nan |-> TRUE, n |-> 0]
Num(n) == [nan |-> FALSE, n |-> n]

WhiteSpace == {" ", LF}

DigitValue(c) ==
  CHOOSE d \in 0..9 : <<"0", "1", "2", "3", "4", "5", "6", "7", "8", "9">>[d + 1] = c

RECURSIVE SkipWhiteSpace(_)
SkipWhiteSpace(s) ==
  IF s # <<>> /\ Head(s) \in WhiteSpace THEN SkipWhiteSpace(Tail(s)) ELSE s

\* The value of the longest prefix of decimal digits of s, given the value
\* acc of the digits already read.
RECURSIVE ReadDigits(_, _)
ReadDigits(s, acc) ==
  IF s # <<>> /\ Head(s) \in Digits
  THEN ReadDigits(Tail(s), 10 * acc + DigitValue(Head(s)))
  ELSE acc

\* parseInt(String(v), 10): leading white space is skipped, one sign is read,
\* then decimal digits up to the first other character; NaN if there is none.
\* String(undefined) and String({...}) begin with no digit.
ParseInt(v) ==
  IF v.t # "str" THEN NaN
  ELSE LET s == SkipWhiteSpace(v.s)
           neg == s # <<>> /\ Head(s) = "-"
           body == IF s # <<>> /\ Head(s) \in {"-", "+"} THEN Tail(s) ELSE s
       IN IF body = <<>> \/ Head(body) \notin Digits THEN NaN
          ELSE Num(IF neg THEN 0 - ReadDigits(body, 0) ELSE ReadDigits(body, 0))

\* OrDefault with the default also replacing negative numbers.
OrDefaultPositive(a, b) == IF a.nan \/ a.n <= 0 THEN b ELSE a.n

\* a || b for a number a: NaN and 0 are falsy.
OrDefault(a, b) == IF a.nan \/ a.n = 0 THEN b ELSE a.n

\* --------------------------------------------------- split(',').join(' ')

\* s.split(sep): the pieces of s between the occurrences of sep.
RECURSIVE SplitFrom(_, _, _)
SplitFrom(s, sep, cur) ==
  IF s = <<>> THEN <<cur>>
  ELSE IF Head(s) = sep THEN <<cur>> \o SplitFrom(Tail(s), sep, <<>>)
  ELSE SplitFrom(Tail(s), sep, Append(cur, Head(s)))

Split(s, sep) == SplitFrom(s, sep, <<>>)

\* pieces.join(sep)
RECURSIVE Join(_, _)
Join(pieces, sep) ==
  IF pieces = <<>> THEN <<>>
  ELSE IF Len(pieces) = 1 THEN Head(pieces)
  ELSE Head(pieces) \o <<sep>> \o Join(Tail(pieces), sep)

\* req.query.select.split(',').join(' ')
CommaToSpace(s) == Join(Split(s, ","), " ")

\* ----------------------------------------------------------- names, keys

K_select == <<"s", "e", "l", "e", "c", "t">>
K_sort == <<"s", "o", "r", "t">>
K_page == <<"p", "a", "g", "e">>
K_limit == <<"l", "i", "m", "i", "t">>
K_name == <<"n", "a", "m", "e">>
K_price == <<"p", "r", "i", "c", "e">>
K_viewCount == <<"v", "i", "e", "w", "C", "o", "u", "n", "t">>
K_gt == <<"g", "t">>
K_in == <<"i", "n">>

\* const removeFields = ['select', 'sort', 'page', 'limit']
removeFields == <<K_select, K_sort, K_page, K_limit>>

\* removeFields.forEach(param => delete reqQuery[param])
RECURSIVE DeleteAll(_, _)
DeleteAll(ps, fields) ==
  IF fields = <<>> THEN ps
  ELSE DeleteAll(Delete(ps, Head(fields)), Tail(fields))

\* The populate argument the router gives the middleware:
\* advancedResults(Attraction, 'products').
PopulatePath == "products"

DefaultPage == 1
DefaultLimit == 1000

\* ------------------------------------------- the collection (Attraction)

\* The users the auth middleware can put in req.user.
Users ==
  { [id |-> "p1", role |-> "publisher"],
    [id |-> "p2", role |-> "publisher"],
    [id |-> "a1", role |-> "admin"] }

NoUser == [id |-> "", role |-> ""]

\* likes and bookmarks hold user ids, in the order they were added; a new
\* document has none.
Doc(id, name, user, viewCount) ==
  [id |-> id, name |-> name, user |-> user, viewCount |-> viewCount,
   likes |-> <<>>, bookmarks |-> <<>>]

\* What findById and findOne resolve to when there is no such document.
Null == Doc(0, <<>>, "", 0)

\* The documents the collection holds before the first request.
InitialDocs ==
  { Doc(1, <<"b">>, "p1", 0), Doc(2, <<"a">>, "a1", 0) }

Rank(c) == CHOOSE i \in 1..27 :
  << "-", "a", "b", "c", "d", "e", "f", "g", "h", "i", "j", "k", "l", "m",
     "n", "o", "p", "q", "r", "s", "t", "u", "v", "w", "x", "y", "z" >>[i] = c

\* Order of two strings of letters: -1, 0 or 1.
RECURSIVE LexCmp(_, _)
LexCmp(a, b) ==
  IF a = <<>> /\ b = <<>> THEN 0
  ELSE IF a = <<>> THEN -1
  ELSE IF b = <<>> THEN 1
  ELSE IF Head(a) = Head(b) THEN LexCmp(Tail(a), Tail(b))
  ELSE IF Rank(Head(a)) < Rank(Head(b)) THEN -1 ELSE 1

IntCmp(a, b) == IF a < b THEN -1 ELSE IF a > b THEN 1 ELSE 0

\* One condition {field: value} or {field: {$op: value}} of a filter, on the
\* name field; no document has any other field a filter of the model names.
OpHolds(d, op, val) ==
  IF op = <<"$">> \o K_in THEN d.name = val
  ELSE IF op = <<"$", "g", "t">> THEN LexCmp(d.name, val) > 0
  ELSE IF op = <<"$", "g", "t", "e">> THEN LexCmp(d.name, val) >= 0
  ELSE IF op = <<"$", "l", "t">> THEN LexCmp(d.name, val) < 0
  ELSE IF op = <<"$", "l", "t", "e">> THEN LexCmp(d.name, val) <= 0
  ELSE FALSE

ClauseHolds(d, p) ==
  IF p.k # K_name THEN FALSE
  ELSE IF p.v.t = "str" THEN d.name = p.v.s
  ELSE \A i \in 1..Len(p.v.o) :
         /\ p.v.o[i].v.t = "str"
         /\ OpHolds(d, p.v.o[i].k, p.v.o[i].v.s)

Matches(d, filter) == \A i \in 1..Len(filter) : ClauseHolds(d, filter[i])

\* Order of two documents under a sort specification ("name -viewCount"):
\* the fields in turn, a leading "-" reversing one; ties keep insertion order.
FieldCmp(d, e, f) ==
  IF f = K_name THEN LexCmp(d.name, e.name)
  ELSE IF f = K_viewCount THEN IntCmp(d.viewCount, e.viewCount)
  ELSE 0

RECURSIVE KeysCmp(_, _, _)
KeysCmp(d, e, keys) ==
  IF keys = <<>> THEN IntCmp(d.id, e.id)
  ELSE LET key == Head(keys)
           desc == key # <<>> /\ Head(key) = "-"
           c == IF desc THEN 0 - FieldCmp(d, e, Tail(key)) ELSE FieldCmp(d, e, key)
       IN IF c # 0 THEN c ELSE KeysCmp(d, e, Tail(keys))

RECURSIVE SortDocs(_, _)
SortDocs(S, keys) ==
  IF S = {} THEN <<>>
  ELSE LET first == CHOOSE d \in S : \A e \in S : KeysCmp(d, e, keys) <= 0
       IN <<first>> \o SortDocs(S \ {first}, keys)

\* The projection of select: _id always, the named fields, the others left out.
Project(d, fields) ==
  IF fields = <<>> THEN d
  ELSE LET names == {fields[i] : i \in 1..Len(fields)}
       IN Doc(d.id,
              IF K_name \in names THEN d.name ELSE <<>>,
              IF <<"u", "s", "e", "r">> \in names THEN d.user ELSE "",
              IF K_viewCount \in names THEN d.viewCount ELSE -1)

Abs(n) == IF n < 0 THEN 0 - n ELSE n

Min(a, b) == IF a < b THEN a ELSE b

\* A query under construction: model.find(filter) and what the builder
\* calls have set on it since.  Nothing is sent to the database until the
\* query is awaited.
NoQuery ==
  [filter |-> <<>>, select |-> <<>>, sort |-> <<>>, skip |-> 0, limit |-> 0,
   populate |-> "", built |-> <<>>]

\* model.find(filter)
Find(filter) == [NoQuery EXCEPT !.filter = filter, !.built = <<"find">>]

\* query.select(fields)
SelectFields(q, fields) ==
  [q EXCEPT !.select = fields, !.built = Append(@, "select")]

\* query.sort(sortBy)
SortBy(q, sortBy) == [q EXCEPT !.sort = sortBy, !.built = Append(@, "sort")]

\* query.skip(startIndex).limit(limit)
SkipLimit(q, startIndex, limit) ==
  [q EXCEPT !.skip = startIndex, !.limit = limit,
            !.built = @ \o <<"skip", "limit">>]

\* if(populate) query = query.populate(populate)
Populate(q, populate) ==
  IF populate # ""
  THEN [q EXCEPT !.populate = populate, !.built = Append(@, "populate")]
  ELSE q

\* The database refuses a negative skip.
Executable(q) == q.skip >= 0

\* What the database returns for an awaited query: the matching documents,
\* sorted, the first skip of them dropped, at most |limit| kept, projected.
Exec(q, coll) ==
  LET matching == {d \in coll : Matches(d, q.filter)}
      sorted == SortDocs(matching, Split(q.sort, " "))
      from == q.skip + 1
      to == IF q.limit = 0 THEN Len(sorted)
            ELSE Min(Len(sorted), q.skip + Abs(q.limit))
      fields == IF q.select = <<>> THEN <<>> ELSE Split(q.select, " ")
  IN [i \in 1..(IF to >= from THEN to - from + 1 ELSE 0) |->
        Project(sorted[from + i - 1], fields)]

\* model.countDocuments()
CountDocuments(coll) == Cardinality(coll)

\* ------------------------------------------------------------ the state

\* The number of requests the server handles, each in its own slot.
MaxReqs == 2

Reqs == 1..MaxReqs

VARIABLES
  attractions,  \* the Attraction collection: a set of documents
  nextId,       \* the _id the next created document gets
  pc,           \* per request: where its handler is suspended
  handler,      \* per request: the route handler that serves it
  req,          \* per request: req.query, req.user, req.params.id, req.body
  sent,         \* per request: the query parameters as the client sent them
  mw,           \* per request: the local variables of advancedResults
  found,        \* per request: the document a controller has read
  res,          \* per request: res.advancedResults, next() calls, the response
  dbLog,        \* per request: the database operations it has had executed
  observed      \* per request: the collection as its count and its find saw it

vars ==
  <<attractions, nextId, pc, handler, req, sent, mw, found, res, dbLog, observed>>

NoReq == [query |-> <<>>, user |-> NoUser, id |-> 0, name |-> <<>>]

NoPagination ==
  [hasNext |-> FALSE, next |-> [page |-> 0, limit |-> 0],
   hasPrev |-> FALSE, prev |-> [page |-> 0, limit |-> 0]]

NoResults == [success |-> FALSE, count |-> 0, pagination |-> NoPagination, data |-> <<>>]

NoLocals ==
  [reqQuery |-> <<>>, queryStr |-> <<>>, filter |-> <<>>, query |-> NoQuery,
   page |-> 0, limit |-> 0, startIndex |-> 0, endIndex |-> 0, total |-> 0,
   results |-> <<>>]

NoRes ==
  [attached |-> FALSE, advancedResults |-> NoResults, nextCalls |-> 0,
   nextError |-> 0, status |-> 0, body |-> NoResults, data |-> Null,
   sentBy |-> "", thrown |-> ""]

NoObserved == [count |-> {}, find |-> {}]

Init ==
  /\ attractions = InitialDocs
  /\ nextId = Cardinality(InitialDocs) + 1
  /\ pc = [r \in Reqs |-> "idle"]
  /\ handler = [r \in Reqs |-> ""]
  /\ req = [r \in Reqs |-> NoReq]
  /\ sent = [r \in Reqs |-> <<>>]
  /\ mw = [r \in Reqs |-> NoLocals]
  /\ found = [r \in Reqs |-> Null]
  /\ res = [r \in Reqs |-> NoRes]
  /\ dbLog = [r \in Reqs |-> <<>>]
  /\ observed = [r \in Reqs |-> NoObserved]

\* ------------------------------------------------------ advancedResults

\* RemoveFields with reqQuery an alias of req.query instead of a copy.
RemoveFieldsInPlace(query) ==
  [query |-> DeleteAll(query, removeFields),
   reqQuery |-> DeleteAll(query, removeFields)]

\* const reqQuery = { ...req.query }; removeFields.forEach(param => delete
\* reqQuery[param]).  The deletions act on the copy: req.query keeps its keys.
RemoveFields(query) ==
  [query |-> query, reqQuery |-> DeleteAll(query, removeFields)]

\* parseInt(req.query.page, 10) || 1
PageOf(query) == OrDefault(ParseInt(Get(query, K_page)), DefaultPage)

\* parseInt(req.query.limit, 10) || 1000
LimitOf(query) == OrDefault(ParseInt(Get(query, K_limit)), DefaultLimit)

StartIndexOf(page, limit) == (page - 1) * limit

EndIndexOf(page, limit) == page * limit

\* Lines 5-40: everything the middleware computes before its first await.
\* thrown names the exception that ends it early: JSON.parse's SyntaxError, or
\* the TypeError of calling split on a select or sort that is an object.
Build(query0) ==
  LET copied == RemoveFields(query0)
      query == copied.query
      queryStr == ReplaceOperators(Stringify(copied.reqQuery))
      parsed == JSONParse(queryStr)
      select == Get(query, K_select)
      sort == Get(query, K_sort)
      q1 == Find(parsed.val.o)
      q2 == IF Truthy(select) THEN SelectFields(q1, CommaToSpace(select.s)) ELSE q1
      q3 == IF Truthy(sort) THEN SortBy(q2, CommaToSpace(sort.s)) ELSE SortBy(q2, K_name)
      page == PageOf(query)
      limit == LimitOf(query)
  IN [thrown |-> IF ~parsed.ok THEN "SyntaxError"
                 ELSE IF Truthy(select) /\ select.t # "str" THEN "TypeError"
                 ELSE IF Truthy(sort) /\ sort.t # "str" THEN "TypeError"
                 ELSE "",
      query |-> query,
      locals |-> [NoLocals EXCEPT
                    !.reqQuery = copied.reqQuery,
                    !.queryStr = queryStr,
                    !.filter = parsed.val.o,
                    !.query = q3,
                    !.page = page,
                    !.limit = limit,
                    !.startIndex = StartIndexOf(page, limit),
                    !.endIndex = EndIndexOf(page, limit)]]

\* GET /api/v2/attractions arrives with query parameters q: lines 5-41, up to
\* the await of model.countDocuments().
MWStart(r, q) ==
  /\ pc[r] = "idle"
  /\ handler' = [handler EXCEPT ![r] = "advancedResults"]
  /\ sent' = [sent EXCEPT ![r] = q]
  /\ LET b == Build(q) IN
       /\ req' = [req EXCEPT ![r].query = b.query]
       /\ IF b.thrown # ""
          THEN /\ pc' = [pc EXCEPT ![r] = "threw"]
               /\ res' = [res EXCEPT ![r].thrown = b.thrown]
               /\ UNCHANGED mw
          ELSE /\ pc' = [pc EXCEPT ![r] = "awaitCount"]
               /\ mw' = [mw EXCEPT ![r] = b.locals]
               /\ UNCHANGED res
  /\ UNCHANGED <<attractions, nextId, found, dbLog, observed>>

\* AfterCount without the populate call.
AfterCountNoPopulate(q, startIndex, limit) == SkipLimit(q, startIndex, limit)

\* Lines 43-47, run when the count has resolved.
AfterCount(q, startIndex, limit) ==
  Populate(SkipLimit(q, startIndex, limit), PopulatePath)

\* TotalOf with the count given the request's filter.
TotalOfFiltered(coll, filter) == Cardinality({d \in coll : Matches(d, filter)})

\* const total = await model.countDocuments(): the call is given no filter, so
\* the filter the request built plays no part in total.
TotalOf(coll, filter) == CountDocuments(coll)

\* The count resolves: total is set, lines 43-50 run up to the await of query.
MWCount(r) ==
  /\ pc[r] = "awaitCount"
  /\ mw' = [mw EXCEPT ![r].total = TotalOf(attractions, mw[r].filter),
                      ![r].query = AfterCount(@, mw[r].startIndex, mw[r].limit)]
  /\ dbLog' = [dbLog EXCEPT ![r] = Append(@, [op |-> "countDocuments", ok |-> TRUE, query |-> NoQuery])]
  /\ observed' = [observed EXCEPT ![r].count = attractions]
  /\ pc' = [pc EXCEPT ![r] = "awaitQuery"]
  /\ UNCHANGED <<attractions, nextId, handler, req, sent, found, res>>

\* The count is rejected: the await throws, nothing catches it.
MWCountFail(r) ==
  /\ pc[r] = "awaitCount"
  /\ dbLog' = [dbLog EXCEPT ![r] = Append(@, [op |-> "countDocuments", ok |-> FALSE, query |-> NoQuery])]
  /\ res' = [res EXCEPT ![r].thrown = "DbError"]
  /\ pc' = [pc EXCEPT ![r] = "threw"]
  /\ UNCHANGED <<attractions, nextId, handler, req, sent, mw, found, observed>>

\* PaginationOf with next also emitted when endIndex = total.
PaginationOfInclusive(page, limit, startIndex, endIndex, total) ==
  [hasNext |-> endIndex <= total,
   next |-> IF endIndex <= total THEN [page |-> page + 1, limit |-> limit]
            ELSE [page |-> 0, limit |-> 0],
   hasPrev |-> startIndex > 0,
   prev |-> IF startIndex > 0 THEN [page |-> page - 1, limit |-> limit]
            ELSE [page |-> 0, limit |-> 0]]

\* Lines 53-67: the pagination object.
PaginationOf(page, limit, startIndex, endIndex, total) ==
  [hasNext |-> endIndex < total,
   next |-> IF endIndex < total THEN [page |-> page + 1, limit |-> limit]
            ELSE NoPagination.next,
   hasPrev |-> startIndex > 0,
   prev |-> IF startIndex > 0 THEN [page |-> page - 1, limit |-> limit]
            ELSE NoPagination.prev]

\* ResultsOf with count off by one from the documents in data.
ResultsOfWrongCount(results, pagination) ==
  [success |-> TRUE, count |-> Len(results) + 1, pagination |-> pagination,
   data |-> results]

\* Lines 69-74: the object attached to res.
ResultsOf(results, pagination) ==
  [success |-> TRUE, count |-> Len(results), pagination |-> pagination,
   data |-> results]

\* The query resolves: lines 53-76 attach the results and call next().
MWQuery(r) ==
  /\ pc[r] = "awaitQuery"
  /\ Executable(mw[r].query)
  /\ LET results == Exec(mw[r].query, attractions)
         pagination == PaginationOf(mw[r].page, mw[r].limit, mw[r].startIndex,
                                    mw[r].endIndex, mw[r].total)
     IN /\ mw' = [mw EXCEPT ![r].results = results]
        /\ res' = [res EXCEPT ![r].attached = TRUE,
                              ![r].advancedResults = ResultsOf(results, pagination),
                              ![r].nextCalls = @ + 1]
  /\ dbLog' = [dbLog EXCEPT ![r] = Append(@, [op |-> "find", ok |-> TRUE, query |-> mw[r].query])]
  /\ observed' = [observed EXCEPT ![r].find = attractions]
  /\ pc' = [pc EXCEPT ![r] = "next"]
  /\ UNCHANGED <<attractions, nextId, handler, req, sent, found>>

\* MWQueryFail with the rejection caught and empty results passed on.
MWQueryFailCaught(r) ==
  /\ pc[r] = "awaitQuery"
  /\ dbLog' = [dbLog EXCEPT ![r] = Append(@, [op |-> "find", ok |-> FALSE, query |-> mw[r].query])]
  /\ res' = [res EXCEPT ![r].attached = TRUE,
                        ![r].advancedResults = ResultsOf(<<>>, NoPagination),
                        ![r].nextCalls = @ + 1]
  /\ pc' = [pc EXCEPT ![r] = "next"]
  /\ UNCHANGED <<attractions, nextId, handler, req, sent, mw, found, observed>>

\* The query is rejected (the database is unreachable, or refuses the query).
MWQueryFail(r) ==
  /\ pc[r] = "awaitQuery"
  /\ dbLog' = [dbLog EXCEPT ![r] = Append(@, [op |-> "find", ok |-> FALSE, query |-> mw[r].query])]
  /\ res' = [res EXCEPT ![r].thrown = "DbError"]
  /\ pc' = [pc EXCEPT ![r] = "threw"]
  /\ UNCHANGED <<attractions, nextId, handler, req, sent, mw, found, observed>>

\* getAttractions, the handler next() passes control to:
\* res.status(200).json(res.advancedResults)
GetAttractions(r) ==
  /\ pc[r] = "next"
  /\ handler[r] = "advancedResults"
  /\ res' = [res EXCEPT ![r].status = 200,
                        ![r].body = res[r].advancedResults,
                        ![r].sentBy = "getAttractions"]
  /\ pc' = [pc EXCEPT ![r] = "done"]
  /\ UNCHANGED <<attractions, nextId, handler, req, sent, mw, found, dbLog, observed>>

\* ---------------------------------------------------- createAttraction

\* The document Attraction.create(req.body) inserts.
NewDoc(id, name, user) == Doc(id, name, user, 0)

\* Attraction.findOne({ user }): the first document of that user, or null.
FindOne(coll, user) ==
  IF \E d \in coll : d.user = user
  THEN CHOOSE d \in coll : d.user = user /\ \A e \in coll : e.user = user => d.id <= e.id
  ELSE Null

\* Attraction.findById(id)
FindById(coll, id) ==
  IF \E d \in coll : d.id = id THEN CHOOSE d \in coll : d.id = id ELSE Null

\* POST /api/v2/attractions by user u: lines 53-56, up to the await of findOne.
CreateStart(r, u, name) ==
  /\ pc[r] = "idle"
  /\ handler' = [handler EXCEPT ![r] = "createAttraction"]
  /\ req' = [req EXCEPT ![r].user = u, ![r].name = name]
  /\ pc' = [pc EXCEPT ![r] = "awaitFindOne"]
  /\ UNCHANGED <<attractions, nextId, sent, mw, found, res, dbLog, observed>>

\* if(publishedAttraction && req.user.role !== 'admin')
CreateRejected(publishedAttraction, user) ==
  publishedAttraction # Null /\ user.role # "admin"

\* findOne resolves: lines 59-63, the 400 error or the await of create.
CreateFound(r) ==
  /\ pc[r] = "awaitFindOne"
  /\ found' = [found EXCEPT ![r] = FindOne(attractions, req[r].user.id)]
  /\ IF CreateRejected(FindOne(attractions, req[r].user.id), req[r].user)
     THEN /\ res' = [res EXCEPT ![r].nextCalls = @ + 1, ![r].nextError = 400]
          /\ pc' = [pc EXCEPT ![r] = "done"]
     ELSE /\ pc' = [pc EXCEPT ![r] = "awaitCreate"]
          /\ UNCHANGED res
  /\ UNCHANGED <<attractions, nextId, handler, req, sent, mw, dbLog, observed>>

\* create resolves: lines 65-68, the 201 response.
CreateInsert(r) ==
  /\ pc[r] = "awaitCreate"
  /\ attractions' = attractions \cup {NewDoc(nextId, req[r].name, req[r].user.id)}
  /\ nextId' = nextId + 1
  /\ res' = [res EXCEPT ![r].status = 201,
                        ![r].data = NewDoc(nextId, req[r].name, req[r].user.id),
                        ![r].sentBy = "createAttraction"]
  /\ pc' = [pc EXCEPT ![r] = "done"]
  /\ UNCHANGED <<handler, req, sent, mw, found, dbLog, observed>>

\* ---------------------------------------------------- deleteAttraction

\* DELETE /api/v2/attractions/:id by user u: up to the await of findById.
DeleteStart(r, u, id) ==
  /\ pc[r] = "idle"
  /\ handler' = [handler EXCEPT ![r] = "deleteAttraction"]
  /\ req' = [req EXCEPT ![r].user = u, ![r].id = id]
  /\ pc' = [pc EXCEPT ![r] = "awaitFindDelete"]
  /\ UNCHANGED <<attractions, nextId, sent, mw, found, res, dbLog, observed>>

\* attraction.user.toString() !== req.user.id && req.user.role !== 'admin'
NotAuthorized(attraction, user) ==
  attraction.user # user.id /\ user.role # "admin"

\* findById resolves: lines 105-117.  remove() is called without await, so the
\* 200 response is sent before the document is removed.
DeleteFound(r) ==
  /\ pc[r] = "awaitFindDelete"
  /\ found' = [found EXCEPT ![r] = FindById(attractions, req[r].id)]
  /\ IF FindById(attractions, req[r].id) = Null
        \/ NotAuthorized(FindById(attractions, req[r].id), req[r].user)
     THEN /\ res' = [res EXCEPT ![r].nextCalls = @ + 1, ![r].nextError = 404]
          /\ pc' = [pc EXCEPT ![r] = "done"]
     ELSE /\ res' = [res EXCEPT ![r].status = 200, ![r].sentBy = "deleteAttraction"]
          /\ pc' = [pc EXCEPT ![r] = "removing"]
  /\ UNCHANGED <<attractions, nextId, handler, req, sent, mw, dbLog, observed>>

\* The database carries out attraction.remove().
DeleteRemove(r) ==
  /\ pc[r] = "removing"
  /\ attractions' = {d \in attractions : d.id # found[r].id}
  /\ pc' = [pc EXCEPT ![r] = "done"]
  /\ UNCHANGED <<nextId, handler, req, sent, mw, found, res, dbLog, observed>>

\* -------------------------------------------------------- getAttraction

\* GET /api/v2/attractions/:id: up to the await of findById.
GetStart(r, id) ==
  /\ pc[r] = "idle"
  /\ handler' = [handler EXCEPT ![r] = "getAttraction"]
  /\ req' = [req EXCEPT ![r].id = id]
  /\ pc' = [pc EXCEPT ![r] = "awaitFindById"]
  /\ UNCHANGED <<attractions, nextId, sent, mw, found, res, dbLog, observed>>

\* findById resolves: the 404 error, or the await of findByIdAndUpdate.
GetFound(r) ==
  /\ pc[r] = "awaitFindById"
  /\ found' = [found EXCEPT ![r] = FindById(attractions, req[r].id)]
  /\ IF FindById(attractions, req[r].id) = Null
     THEN /\ res' = [res EXCEPT ![r].nextCalls = @ + 1, ![r].nextError = 404]
          /\ pc' = [pc EXCEPT ![r] = "done"]
     ELSE /\ pc' = [pc EXCEPT ![r] = "awaitUpdate"]
          /\ UNCHANGED res
  /\ UNCHANGED <<attractions, nextId, handler, req, sent, mw, dbLog, observed>>

\* The update { viewCount: attraction.viewCount + 1 }, from the document the
\* handler read at findById.
ViewCountUpdate(attraction) == attraction.viewCount + 1

\* findByIdAndUpdate resolves (new: false gives the document as it was, or
\* null when it is gone): the 200 response.
GetUpdate(r) ==
  /\ pc[r] = "awaitUpdate"
  /\ attractions' =
       {IF d.id = req[r].id THEN [d EXCEPT !.viewCount = ViewCountUpdate(found[r])] ELSE d
          : d \in attractions}
  /\ res' = [res EXCEPT ![r].status = 200,
                        ![r].data = FindById(attractions, req[r].id),
                        ![r].sentBy = "getAttraction"]
  /\ pc' = [pc EXCEPT ![r] = "done"]
  /\ UNCHANGED <<nextId, handler, req, sent, mw, found, dbLog, observed>>

\* ------------------------------------------------------- specifications

\* The list requests of the concurrent specification.
Queries ==
  { <<>>,
    <<Pair(K_limit, Str(<<"1">>))>>,
    <<Pair(K_name, Str(<<"a">>)), Pair(K_page, Str(<<"2">>)), Pair(K_limit, Str(<<"1">>))>> }

CreateNames == { <<"c">> }

TargetIds == {d.id : d \in InitialDocs}

Next ==
  \E r \in Reqs :
    \/ \E q \in Queries : MWStart(r, q)
    \/ MWCount(r)
    \/ MWCountFail(r)
    \/ MWQuery(r)
    \/ MWQueryFail(r)
    \/ GetAttractions(r)
    \/ \E u \in Users, name \in CreateNames : CreateStart(r, u, name)
    \/ CreateFound(r)
    \/ CreateInsert(r)
    \/ \E u \in Users, id \in TargetIds : DeleteStart(r, u, id)
    \/ DeleteFound(r)
    \/ DeleteRemove(r)
    \/ \E id \in TargetIds : GetStart(r, id)
    \/ GetFound(r)
    \/ GetUpdate(r)

Spec == Init /\ [][Next]_vars

\* ---------------------------------------- one list request, any collection

\* The largest collection a single list request is checked against.
MaxDocs == 3

DocNames == << <<"b">>, <<"a">>, <<"a">>, <<"c">> >>

DocAt(i) == Doc(i, DocNames[((i - 1) % Len(DocNames)) + 1], "a1", 0)

InitOne ==
  /\ \E n \in 0..MaxDocs :
       /\ attractions = {DocAt(i) : i \in 1..n}
       /\ nextId = n + 1
  /\ pc = [r \in Reqs |-> "idle"]
  /\ handler = [r \in Reqs |-> ""]
  /\ req = [r \in Reqs |-> NoReq]
  /\ sent = [r \in Reqs |-> <<>>]
  /\ mw = [r \in Reqs |-> NoLocals]
  /\ found = [r \in Reqs |-> Null]
  /\ res = [r \in Reqs |-> NoRes]
  /\ dbLog = [r \in Reqs |-> <<>>]
  /\ observed = [r \in Reqs |-> NoObserved]

\* key=value of a query string, nothing when the parameter is absent.
Param(k, v) == IF v = Undefined THEN <<>> ELSE <<Pair(k, v)>>

OneFilters ==
  { <<>>,
    <<Pair(K_name, Str(<<"a">>))>>,
    <<Pair(K_name, Obj(<<Pair(K_in, Str(<<"b">>))>>))>> }

OneSelects ==
  { Undefined, Str(K_name), Str(K_name \o <<",">> \o K_viewCount),
    Obj(<<Pair(<<"a">>, Str(<<"b">>))>>) }

OneSorts ==
  { Undefined, Str(<<"-">> \o K_name), Str(K_viewCount \o <<",", "-">> \o K_name),
    Obj(<<Pair(<<"a">>, Str(<<"b">>))>>) }

OnePages ==
  { Undefined, Str(<<"1">>), Str(<<"2">>), Str(<<"3">>), Str(<<"0">>),
    Str(<<"-", "1">>), Str(<<"x">>) }

OneLimits ==
  { Undefined, Str(<<"1">>), Str(<<"2">>), Str(<<"0">>), Str(<<"-", "2">>) }

OneQueries ==
  { f \o Param(K_select, s) \o Param(K_sort, o) \o Param(K_page, p) \o Param(K_limit, l) :
      f \in OneFilters, s \in OneSelects, o \in OneSorts, p \in OnePages, l \in OneLimits }

NextOne ==
  \/ pc[1] = "idle" /\ \E q \in OneQueries : MWStart(1, q)
  \/ MWCount(1)
  \/ MWCountFail(1)
  \/ MWQuery(1)
  \/ MWQueryFail(1)
  \/ GetAttractions(1)

SpecOne == InitOne /\ [][NextOne]_vars

\* ------------------------------ the synchronous part, over many parameters

\* The longest page or limit parameter, and the longest filter value.
MaxParamLen == 2
MaxValueLen == 3

Strings(alphabet, n) == UNION {[1..k -> alphabet] : k \in 0..n}

ParamAlphabet == {"0", "1", "2", "-", "+", " ", "x", "."}

FilterAlphabet == {"g", "t", "e", "i", "n", LF, DQ, BSL}

FilterKeys == { K_name, K_in, <<"a", "-", "l", "t", "e">>, <<"p", LF, "g", "t">> }

ParamQueries ==
  {<<Pair(K_page, Str(s))>> : s \in Strings(ParamAlphabet, MaxParamLen)}
  \cup {<<Pair(K_limit, Str(s))>> : s \in Strings(ParamAlphabet, MaxParamLen)}
  \cup {<<Pair(K_page, Obj(<<Pair(<<"a">>, Str(<<"1">>))>>)), Pair(K_limit, Str(<<"-", "5">>))>>,
        <<Pair(K_page, Str(<<"-", "3">>)), Pair(K_limit, Str(<<"2", "0">>))>>}

FilterQueries ==
  {<<Pair(k, Str(s))>> : k \in FilterKeys, s \in Strings(FilterAlphabet, MaxValueLen)}
  \cup {<<Pair(K_price, Obj(<<Pair(op, Str(<<"5", "0">>))>>)), Pair(K_limit, Str(<<"i", "n">>))>> :
          op \in {K_gt, K_in, <<"g", "t", "e">>, <<"l", "t">>, <<"l", "t", "e">>, <<"g", "t", "x">>, <<"$", "g", "t">>}}
  \cup {<<Pair(K_select, Str(K_in)), Pair(K_name, Str(<<"l", "t">>)), Pair(K_sort, Str(K_gt))>>}

NextBuild ==
  /\ pc[1] = "idle"
  /\ \E q \in ParamQueries \cup FilterQueries : MWStart(1, q)

SpecBuild == Init /\ [][NextBuild]_vars

\* ------------------------------------------------- likes and bookmarks

\* Contains that finds no one: the handlers' membership test left out.
ContainsNoOne(list, user) == FALSE

\* list.filter(x => x.toString() === user).length > 0, and
\* list.find(x => x.toString() === user) !== undefined
Contains(list, user) == \E i \in 1..Len(list) : list[i] = user

\* [...list, req.user._id]
WithUser(list, user) == Append(list, user)

\* list.filter(x => x.toString() !== user)
WithoutUser(list, user) == SelectSeq(list, LAMBDA x : x # user)

\* The first await of the four handlers: Attraction.findById(req.params.id).
SocialStart(r, name, u, id) ==
  /\ pc[r] = "idle"
  /\ handler' = [handler EXCEPT ![r] = name]
  /\ req' = [req EXCEPT ![r].user = u, ![r].id = id]
  /\ pc' = [pc EXCEPT ![r] = "awaitFind"]
  /\ UNCHANGED <<attractions, nextId, sent, mw, found, res, dbLog, observed>>

\* findById has resolved: next(new ErrorResponse(..., 404)) when there is no
\* such attraction or when refused holds of the document read, else the await
\* of findByIdAndUpdate.
SocialFound(r, name, refused) ==
  /\ pc[r] = "awaitFind"
  /\ handler[r] = name
  /\ found' = [found EXCEPT ![r] = FindById(attractions, req[r].id)]
  /\ IF FindById(attractions, req[r].id) = Null \/ refused
     THEN /\ res' = [res EXCEPT ![r].nextCalls = @ + 1, ![r].nextError = 404]
          /\ pc' = [pc EXCEPT ![r] = "done"]
     ELSE /\ pc' = [pc EXCEPT ![r] = "awaitUpdate"]
          /\ UNCHANGED res
  /\ UNCHANGED <<attractions, nextId, handler, req, sent, mw, dbLog, observed>>

\* findByIdAndUpdate(id, update, {new: true}) has resolved: the document is
\* as updated, the 200 response carries its list.
SocialUpdate(r, name, updated, list) ==
  /\ pc[r] = "awaitUpdate"
  /\ handler[r] = name
  /\ attractions' = {IF d.id = req[r].id THEN updated ELSE d : d \in attractions}
  /\ res' = [res EXCEPT ![r].status = 200, ![r].data = list, ![r].sentBy = name]
  /\ pc' = [pc EXCEPT ![r] = "done"]
  /\ UNCHANGED <<nextId, handler, req, sent, mw, found, dbLog, observed>>

\* The document with id as the database holds it now.
Current(r) == FindById(attractions, req[r].id)

\* if(attraction.likes.filter(...).length > 0): already liked
LikeRefused(attraction, user) == Contains(attraction.likes, user.id)

\* { likes: [...attraction.likes, req.user._id] }, from the document read
LikeUpdate(attraction, user) == WithUser(attraction.likes, user.id)

LikeStart(r, u, id) == SocialStart(r, "likeAttraction", u, id)

LikeFound(r) ==
  SocialFound(r, "likeAttraction", LikeRefused(Current(r), req[r].user))

LikeWrite(r) ==
  SocialUpdate(r, "likeAttraction",
               [Current(r) EXCEPT !.likes = LikeUpdate(found[r], req[r].user)],
               LikeUpdate(found[r], req[r].user))

\* if(attraction.bookmarks.filter(...).length > 0): already bookmarked
BookmarkRefused(attraction, user) == Contains(attraction.bookmarks, user.id)

\* { bookmarks: [...attraction.bookmarks, req.user._id] }
BookmarkUpdate(attraction, user) == WithUser(attraction.bookmarks, user.id)

BookmarkStart(r, u, id) == SocialStart(r, "bookmarkAttraction", u, id)

BookmarkFound(r) ==
  SocialFound(r, "bookmarkAttraction", BookmarkRefused(Current(r), req[r].user))

BookmarkWrite(r) ==
  SocialUpdate(r, "bookmarkAttraction",
               [Current(r) EXCEPT !.bookmarks = BookmarkUpdate(found[r], req[r].user)],
               BookmarkUpdate(found[r], req[r].user))

\* if(attraction.likes.find(...) === undefined): not liked
UnLikeRefused(attraction, user) == ~Contains(attraction.likes, user.id)

\* { likes: attraction.likes.filter(like => like.toString() !== user) }
UnLikeUpdate(attraction, user) == WithoutUser(attraction.likes, user.id)

UnLikeStart(r, u, id) == SocialStart(r, "unLikeAttraction", u, id)

UnLikeFound(r) ==
  SocialFound(r, "unLikeAttraction", UnLikeRefused(Current(r), req[r].user))

UnLikeWrite(r) ==
  SocialUpdate(r, "unLikeAttraction",
               [Current(r) EXCEPT !.likes = UnLikeUpdate(found[r], req[r].user)],
               UnLikeUpdate(found[r], req[r].user))

\* if(attraction.bookmarks.find(...) === undefined): not bookmarked
UnBookmarkRefused(attraction, user) == ~Contains(attraction.bookmarks, user.id)

\* { bookmarks: attraction.bookmarks.filter(bookmark => ... !== user) }
UnBookmarkUpdate(attraction, user) == WithoutUser(attraction.bookmarks, user.id)

UnBookmarkStart(r, u, id) == SocialStart(r, "unBookmarkAttraction", u, id)

UnBookmarkFound(r) ==
  SocialFound(r, "unBookmarkAttraction", UnBookmarkRefused(Current(r), req[r].user))

UnBookmarkWrite(r) ==
  SocialUpdate(r, "unBookmarkAttraction",
               [Current(r) EXCEPT !.bookmarks = UnBookmarkUpdate(found[r], req[r].user)],
               UnBookmarkUpdate(found[r], req[r].user))

\* The users who like and bookmark, and a collection in which some already have.
SocialUsers == {u \in Users : u.id \in {"p1", "p2"}}

SocialDocs ==
  { [Doc(1, <<"b">>, "p1", 0) EXCEPT !.likes = <<"p1">>, !.bookmarks = <<"p2">>],
    Doc(2, <<"a">>, "a1", 0) }

InitSocial ==
  /\ attractions = SocialDocs
  /\ nextId = Cardinality(SocialDocs) + 1
  /\ pc = [r \in Reqs |-> "idle"]
  /\ handler = [r \in Reqs |-> ""]
  /\ req = [r \in Reqs |-> NoReq]
  /\ sent = [r \in Reqs |-> <<>>]
  /\ mw = [r \in Reqs |-> NoLocals]
  /\ found = [r \in Reqs |-> Null]
  /\ res = [r \in Reqs |-> NoRes]
  /\ dbLog = [r \in Reqs |-> <<>>]
  /\ observed = [r \in Reqs |-> NoObserved]

NextSocial ==
  \E r \in Reqs :
    \/ \E u \in SocialUsers, id \in TargetIds : LikeStart(r, u, id)
    \/ LikeFound(r)
    \/ LikeWrite(r)
    \/ \E u \in SocialUsers, id \in TargetIds : BookmarkStart(r, u, id)
    \/ BookmarkFound(r)
    \/ BookmarkWrite(r)
    \/ \E u \in SocialUsers, id \in TargetIds : UnLikeStart(r, u, id)
    \/ UnLikeFound(r)
    \/ UnLikeWrite(r)
    \/ \E u \in SocialUsers, id \in TargetIds : UnBookmarkStart(r, u, id)
    \/ UnBookmarkFound(r)
    \/ UnBookmarkWrite(r)

SpecSocial == InitSocial /\ [][NextSocial]_vars

\* ----------------------------------------------------------- properties

IsList(r) == handler[r] = "advancedResults"

\* The middleware has attached its results and called next().
Completed(r) == IsList(r) /\ pc[r] \in {"next", "done"}

Ids(coll) == {d.id : d \in coll}

\* C1: for page >= 1 and limit >= 1, startIndex = (page-1)*limit and
\* endIndex = page*limit; next = {page+1, limit} is attached exactly when
\* endIndex < total and prev = {page-1, limit} exactly when startIndex > 0,
\* total being the size of the whole collection whatever the filter.
C1_Pagination ==
  \A r \in Reqs :
    (Completed(r) /\ mw[r].page >= 1 /\ mw[r].limit >= 1) =>
      LET page == mw[r].page
          limit == mw[r].limit
          total == Cardinality(observed[r].count)
          pagination == res[r].advancedResults.pagination
      IN /\ mw[r].startIndex = (page - 1) * limit
         /\ mw[r].endIndex = page * limit
         /\ mw[r].total = total
         /\ pagination.hasNext <=> page * limit < total
         /\ pagination.hasNext => pagination.next = [page |-> page + 1, limit |-> limit]
         /\ pagination.hasPrev <=> (page - 1) * limit > 0
         /\ pagination.hasPrev => pagination.prev = [page |-> page - 1, limit |-> limit]

\* The scenario of the claim, scaled: 3 documents, a filter that matches 2 of
\* them, page=2, limit=2: no next, prev = {page: 1, limit: 2}.
C1_Witness ==
  \E r \in Reqs :
    /\ Completed(r)
    /\ mw[r].filter # <<>>
    /\ mw[r].page = 2 /\ mw[r].limit = 2
    /\ Cardinality(observed[r].count) = 3
    /\ ~res[r].advancedResults.pagination.hasNext
    /\ res[r].advancedResults.pagination.hasPrev
    /\ res[r].advancedResults.pagination.prev = [page |-> 1, limit |-> 2]

\* What "the base-10 integer the parameter holds" means, stated without
\* parseInt: white space, an optional sign, then one or more digits.
RECURSIVE Pow10(_)
Pow10(n) == IF n = 0 THEN 1 ELSE 10 * Pow10(n - 1)

RECURSIVE DecimalValue(_)
DecimalValue(ds) ==
  IF ds = <<>> THEN 0
  ELSE DigitValue(Head(ds)) * Pow10(Len(ds) - 1) + DecimalValue(Tail(ds))

\* The number of characters of s from position j on that are all in set.
RunLength(s, j, set) ==
  CHOOSE n \in 0..Len(s) :
    /\ j + n - 1 <= Len(s)
    /\ \A i \in j..(j + n - 1) : s[i] \in set
    /\ (j + n <= Len(s) => s[j + n] \notin set)

IntegerIn(v) ==
  IF v.t # "str" THEN [has |-> FALSE, n |-> 0]
  ELSE LET s == v.s
           ws == RunLength(s, 1, WhiteSpace)
           signed == ws + 1 <= Len(s) /\ s[ws + 1] \in {"+", "-"}
           from == IF signed THEN ws + 2 ELSE ws + 1
           digits == RunLength(s, from, Digits)
           value == DecimalValue(SubSeq(s, from, from + digits - 1))
       IN IF digits = 0 THEN [has |-> FALSE, n |-> 0]
          ELSE [has |-> TRUE,
                n |-> IF signed /\ s[ws + 1] = "-" THEN 0 - value ELSE value]

\* C2 as stated: page is 1 and limit 1000 when the parameter is absent or
\* holds no integer, and in every other case the integer it holds.
C2_Original ==
  \A r \in Reqs :
    (IsList(r) /\ pc[r] = "awaitCount") =>
      LET page == IntegerIn(Get(sent[r], K_page))
          limit == IntegerIn(Get(sent[r], K_limit))
      IN /\ mw[r].page = (IF page.has THEN page.n ELSE 1)
         /\ mw[r].limit = (IF limit.has THEN limit.n ELSE 1000)

\* C2, amended: page is 1 and limit 1000 when the parameter is absent, holds
\* no integer, or holds the integer 0; in every other case they are the
\* integer it holds, negative ones included.
C2_ParsedOrDefault ==
  \A r \in Reqs :
    (IsList(r) /\ pc[r] = "awaitCount") =>
      LET page == IntegerIn(Get(sent[r], K_page))
          limit == IntegerIn(Get(sent[r], K_limit))
      IN /\ mw[r].page = (IF page.has /\ page.n # 0 THEN page.n ELSE 1)
         /\ mw[r].limit = (IF limit.has /\ limit.n # 0 THEN limit.n ELSE 1000)

\* page=-3&limit=20 is taken as it is.
C2_Witness ==
  \E r \in Reqs :
    /\ IsList(r) /\ pc[r] = "awaitCount"
    /\ Get(sent[r], K_page) = Str(<<"-", "3">>)
    /\ mw[r].page = -3
    /\ mw[r].limit = 20

\* C3: a list request that completes has had exactly one count and then
\* exactly one find executed, the find with select (when asked for), sort,
\* skip, limit and populate all applied; nothing is executed before that.
C3_OneCountThenOneFind ==
  \A r \in Reqs :
    IsList(r) =>
      /\ Len(dbLog[r]) <= 2
      /\ (Len(dbLog[r]) >= 1 => dbLog[r][1].op = "countDocuments")
      /\ (Len(dbLog[r]) = 2 => dbLog[r][1].ok /\ dbLog[r][2].op = "find")
      /\ (pc[r] = "awaitCount" => dbLog[r] = <<>>)
      /\ (pc[r] = "awaitQuery" => Len(dbLog[r]) = 1)
      /\ Completed(r) =>
           /\ Len(dbLog[r]) = 2
           /\ dbLog[r][2].ok
           /\ LET q == dbLog[r][2].query IN
                /\ q.built = <<"find">>
                     \o (IF Truthy(Get(sent[r], K_select)) THEN <<"select">> ELSE <<>>)
                     \o <<"sort", "skip", "limit", "populate">>
                /\ q.sort # <<>>
                /\ q.skip = mw[r].startIndex
                /\ q.limit = mw[r].limit
                /\ q.populate = PopulatePath

C3_Witness ==
  \E r \in Reqs :
    /\ Completed(r)
    /\ Truthy(Get(sent[r], K_select))
    /\ Len(dbLog[r]) = 2
    /\ dbLog[r][2].query.built = <<"find", "select", "sort", "skip", "limit", "populate">>

\* C4: a list request that does not fail gets res.advancedResults =
\* {success: true, count, pagination, data} with count the number of documents
\* in data, then one call of next(); the middleware writes no response, and
\* getAttractions sends exactly the attached object.
C4_AttachThenNext ==
  \A r \in Reqs :
    IsList(r) =>
      /\ res[r].nextCalls <= 1
      /\ (pc[r] \in {"awaitCount", "awaitQuery"} =>
            ~res[r].attached /\ res[r].nextCalls = 0 /\ res[r].status = 0)
      /\ Completed(r) =>
           /\ res[r].attached
           /\ res[r].advancedResults.success
           /\ res[r].advancedResults.data = mw[r].results
           /\ res[r].advancedResults.count = Len(res[r].advancedResults.data)
           /\ res[r].nextCalls = 1
           /\ res[r].nextError = 0
      /\ (pc[r] = "next" => res[r].status = 0 /\ res[r].sentBy = "")
      /\ (pc[r] = "done" =>
            /\ res[r].status = 200
            /\ res[r].sentBy = "getAttractions"
            /\ res[r].body = res[r].advancedResults)

C4_Witness ==
  \E r \in Reqs :
    /\ IsList(r) /\ pc[r] = "done"
    /\ res[r].body.count = 2
    /\ Len(res[r].body.data) = 2
    /\ res[r].body.pagination.hasNext

\* C5: when a step of a list request fails, the exception leaves the
\* middleware: res.advancedResults stays unset, next() is not called, no
\* response is written, and no query follows the failed one (no retry).
C5_FailurePropagates ==
  \A r \in Reqs :
    IsList(r) =>
      /\ (res[r].thrown # "" <=> pc[r] = "threw")
      /\ (pc[r] = "threw" =>
            /\ ~res[r].attached
            /\ res[r].nextCalls = 0
            /\ res[r].status = 0
            /\ res[r].sentBy = "")
      /\ \A i \in 1..Len(dbLog[r]) :
           ~dbLog[r][i].ok => (i = Len(dbLog[r]) /\ pc[r] = "threw")
      /\ \A i, j \in 1..Len(dbLog[r]) : dbLog[r][i].op = dbLog[r][j].op => i = j

\* The data query failed after the count had succeeded.
C5_Witness ==
  \E r \in Reqs :
    /\ IsList(r) /\ pc[r] = "threw"
    /\ Len(dbLog[r]) = 2
    /\ dbLog[r][1].ok /\ ~dbLog[r][2].ok
    /\ res[r].thrown = "DbError"

\* A word of OpWords stands alone at position i of the string s: it is not
\* part of a longer run of word characters.
StandsAloneAt(s, i) ==
  \E n \in 1..Len(OpWords) :
    LET w == OpWords[n] IN
      /\ i + Len(w) - 1 <= Len(s)
      /\ SubSeq(s, i, i + Len(w) - 1) = w
      /\ (i = 1 \/ ~IsWordChar(s[i - 1]))
      /\ (i + Len(w) > Len(s) \/ ~IsWordChar(s[i + Len(w)]))

\* s with "$" put before every operator word that stands alone in it.
Prefixed(s) ==
  Flatten([i \in 1..Len(s) |-> IF StandsAloneAt(s, i) THEN <<"$", s[i]>> ELSE <<s[i]>>])

RECURSIVE PrefixedPairs(_)
PrefixedValue(v) ==
  IF v.t = "str" THEN Str(Prefixed(v.s)) ELSE Obj(PrefixedPairs(v.o))

PrefixedPairs(ps) ==
  [i \in 1..Len(ps) |-> Pair(Prefixed(ps[i].k), PrefixedValue(ps[i].v))]

\* The characters JSON.stringify writes as an escape that ends in a word
\* character (\n): in the serialized text the word after one is not alone.
EscapedToWord == {LF}

StandsAloneInText(s, i) ==
  /\ StandsAloneAt(s, i)
  /\ (i = 1 \/ s[i - 1] \notin EscapedToWord)

PrefixedInText(s) ==
  Flatten([i \in 1..Len(s) |-> IF StandsAloneInText(s, i) THEN <<"$", s[i]>> ELSE <<s[i]>>])

RECURSIVE PrefixedPairsInText(_)
PrefixedValueInText(v) ==
  IF v.t = "str" THEN Str(PrefixedInText(v.s)) ELSE Obj(PrefixedPairsInText(v.o))

PrefixedPairsInText(ps) ==
  [i \in 1..Len(ps) |-> Pair(PrefixedInText(ps[i].k), PrefixedValueInText(ps[i].v))]

\* The query parameters without select, sort, page and limit.
WithoutControls(ps) ==
  SelectSeq(ps, LAMBDA p : p.k \notin {K_select, K_sort, K_page, K_limit})

RECURSIVE HasOpWord(_)
HasOpWord(ps) ==
  \E i \in 1..Len(ps) :
    \/ \E j \in 1..Len(ps[i].k) : StandsAloneAt(ps[i].k, j)
    \/ IF ps[i].v.t = "str"
       THEN \E j \in 1..Len(ps[i].v.s) : StandsAloneAt(ps[i].v.s, j)
       ELSE HasOpWord(ps[i].v.o)

\* C6 as stated: the filter is the query parameters minus select, sort, page
\* and limit, with every operator word that stands alone in a key or in a
\* string value prefixed by "$" and nothing else changed.
C6_Original ==
  \A r \in Reqs :
    (IsList(r) /\ pc[r] = "awaitCount") =>
      mw[r].query.filter = PrefixedPairs(WithoutControls(sent[r]))

\* C6, amended: the words prefixed are those that stand alone in the
\* serialized JSON text, so a word right after a character that JSON writes
\* as an escape ending in a letter (a newline, \n) is left as it is; a filter
\* with none of the words is passed unchanged, and price[gt]=50 becomes
\* {price: {$gt: "50"}}.
C6_FilterRewrite ==
  \A r \in Reqs :
    (IsList(r) /\ pc[r] = "awaitCount") =>
      /\ mw[r].query.filter = PrefixedPairsInText(WithoutControls(sent[r]))
      /\ (~HasOpWord(WithoutControls(sent[r])) =>
            mw[r].query.filter = WithoutControls(sent[r]))
      /\ (WithoutControls(sent[r]) = <<Pair(K_price, Obj(<<Pair(K_gt, Str(<<"5", "0">>))>>))>> =>
            mw[r].query.filter =
              <<Pair(K_price, Obj(<<Pair(<<"$", "g", "t">>, Str(<<"5", "0">>))>>))>>)

\* price[gt]=50&limit=in: limit is dropped, the key gt becomes $gt, the value
\* stays the string "50".
C6_Witness ==
  \E r \in Reqs :
    /\ IsList(r) /\ pc[r] = "awaitCount"
    /\ sent[r] = <<Pair(K_price, Obj(<<Pair(K_gt, Str(<<"5", "0">>))>>)),
                   Pair(K_limit, Str(K_in))>>
    /\ mw[r].query.filter =
         <<Pair(K_price, Obj(<<Pair(<<"$", "g", "t">>, Str(<<"5", "0">>))>>))>>

C8_CountAndFindApart ==
  \A r \in Reqs :
    Completed(r) =>
      /\ mw[r].total = Cardinality(observed[r].count)
      /\ res[r].advancedResults.pagination.hasNext
           <=> mw[r].endIndex < Cardinality(observed[r].count)
      /\ \A i \in 1..Len(res[r].advancedResults.data) :
           res[r].advancedResults.data[i].id \in Ids(observed[r].find)
      /\ res[r].advancedResults.count <= Cardinality(observed[r].find)
      /\ (Ids(observed[r].count) = Ids(observed[r].find) =>
            mw[r].total = Cardinality(observed[r].find))

\* A document was removed between the two reads: next is attached although
\* the collection the data came from has no further page.
C8_Witness ==
  \E r \in Reqs :
    /\ Completed(r)
    /\ Ids(observed[r].count) # Ids(observed[r].find)
    /\ mw[r].total # Cardinality(observed[r].find)
    /\ res[r].advancedResults.pagination.hasNext
    /\ ~(mw[r].endIndex < Cardinality(observed[r].find))

\* C9: a user who is not an admin owns at most one attraction.
C9_AtMostOne ==
  \A u \in Users :
    u.role # "admin" => Cardinality({d \in attractions : d.user = u.id}) <= 1

\* The successful getAttraction requests for document id that have finished.
Views(id) ==
  {r \in Reqs : /\ handler[r] = "getAttraction" /\ req[r].id = id
                /\ pc[r] = "done" /\ res[r].status = 200}

\* C10: once every getAttraction request for a document has finished, and
\* nothing else has written the document, its viewCount is the initial one
\* plus the number of those requests.
C10_CountsEveryView ==
  \A d \in attractions :
    (/\ d.id \in TargetIds
     /\ \A r \in Reqs :
          /\ (handler[r] = "getAttraction" /\ req[r].id = d.id) => pc[r] = "done"
          /\ ~(handler[r] = "deleteAttraction" /\ req[r].id = d.id)) =>
      d.viewCount = FindById(InitialDocs, d.id).viewCount + Cardinality(Views(d.id))

\* No element of list occurs at two positions.
NoRepeats(list) ==
  \A i, j \in 1..Len(list) : list[i] = list[j] => i = j

NoDuplicateUsers ==
  \A d \in attractions : NoRepeats(d.likes) /\ NoRepeats(d.bookmarks)

\* The list of the stored document that request r is about.
ListOf(r) ==
  IF handler[r] \in {"likeAttraction", "unLikeAttraction"}
  THEN Current(r).likes ELSE Current(r).bookmarks

\* Request r asks for what the stored list already reflects: adding a user
\* who is in it, or removing one who is not.
Redundant(r) ==
  Contains(ListOf(r), req[r].user.id)
    <=> handler[r] \in {"likeAttraction", "bookmarkAttraction"}

\* In this step request r's findById resolves.
Reads(r) == pc[r] = "awaitFind" /\ pc'[r] # "awaitFind"

\* Request r has ended in next(error 404) without a response.
Rejected(r) ==
  /\ pc[r] = "done"
  /\ res[r].nextError = 404
  /\ res[r].nextCalls = 1
  /\ res[r].status = 0

RejectsRedundant ==
  \A r \in Reqs :
    (Reads(r) /\ Redundant(r)) =>
      /\ Rejected(r)'
      /\ attractions' = attractions

\* A rejected request writes nothing afterwards: it is done for good.
RejectedStays ==
  \A r \in Reqs : Rejected(r) => Rejected(r)'

\* C11: under any interleaving of likeAttraction, unLikeAttraction,
\* bookmarkAttraction and unBookmarkAttraction requests, no user id occurs
\* twice in an attraction's likes or in its bookmarks; and a request whose
\* findById reads a list that already has the user (like, bookmark) or lacks
\* the user (unlike, unbookmark) ends in a 404 error, sends no response and
\* leaves every list as it was.
C11_NoDuplicatesAndRejections ==
  /\ []NoDuplicateUsers
  /\ [][RejectsRedundant /\ RejectedStays]_vars

\* A like or bookmark by a user already in the list and an unlike or
\* unbookmark by a user not in it have both been rejected.
C11_Witness ==
  /\ \E r \in Reqs :
       /\ handler[r] \in {"likeAttraction", "bookmarkAttraction"}
       /\ Rejected(r)
       /\ Contains(ListOf(r), req[r].user.id)
  /\ \E r \in Reqs :
       /\ handler[r] \in {"unLikeAttraction", "unBookmarkAttraction"}
       /\ Rejected(r)
       /\ ~Contains(ListOf(r), req[r].user.id)

====
